---- MODULE Spec2Model ----
(***************************************************************************)
(* A model of karapostK/protofair's data layer (src/data/dataset.py) and   *)
(* of the fairness helpers of src/fair/utils.py.                           *)
(*                                                                         *)
(* The csv files of a dataset directory are the variables user_idxs,       *)
(* item_idxs and listening_history; `dataset` is the dataset object the    *)
(* program holds (its attributes by their names in the source) and `ret`   *)
(* the outcome of the last call: its return value or the exception raised. *)
(* scipy's sparse matrices are modelled by their stored arrays: a COO      *)
(* matrix by row/col/data, a CSR matrix by the sorted indices and the data *)
(* of each row.  Floating-point values are modelled by exact fractions     *)
(* num/den, with 1/0 for inf and 0/0 for nan.                              *)
(***************************************************************************)
EXTENDS Integers, Sequences, FiniteSets, TLC

\* Bounds of the model.
MaxUsers == 2
MaxItems == 2
MaxEvalRows == 2
MaxRows == 3
MaxNPos == 2
MaxGroups == 2

VARIABLES user_idxs, item_idxs, listening_history, dataset, ret

vars == <<user_idxs, item_idxs, listening_history, dataset, ret>>

----------------------------------------------------------------------------
\* Python's None and a value that is set.
None == <<>>
Some(x) == <<x>>
Get(o) == o[1]

Range(s) == {s[k] : k \in DOMAIN s}

RECURSIVE SumSeq(_)
SumSeq(s) == IF s = <<>> THEN 0 ELSE Head(s) + SumSeq(Tail(s))

Min(S) == CHOOSE x \in S : \A y \in S : x <= y
Max(S) == CHOOSE x \in S : \A y \in S : x >= y

\* sorted(S) for a finite set of integers
RECURSIVE SortedSeq(_)
SortedSeq(S) == IF S = {} THEN <<>> ELSE <<Min(S)>> \o SortedSeq(S \ {Min(S)})

----------------------------------------------------------------------------
\* Floating-point values as fractions.
RECURSIVE GCD(_, _)
GCD(a, b) == IF b = 0 THEN a ELSE GCD(b, a % b)

Frac(n, d) == IF d = 0 THEN [num |-> IF n = 0 THEN 0 ELSE 1, den |-> 0]
              ELSE [num |-> n \div GCD(n, d), den |-> d \div GCD(n, d)]
Float(n) == Frac(n, 1)
NaN == Frac(0, 0)
Inf == Frac(1, 0)
IsNaN(x) == x.num = 0 /\ x.den = 0
\* x / y of numpy and torch on non-negative floats: x/0 is inf, 0/0 is nan
TrueDivide(x, y) == Frac(x.num * y.den, x.den * y.num)
\* x <= y and x < y of IEEE floats (false when either is nan)
FloatLE(x, y) == /\ ~IsNaN(x) /\ ~IsNaN(y)
                 /\ IF y.den = 0 THEN TRUE
                    ELSE IF x.den = 0 THEN FALSE
                    ELSE x.num * y.den <= y.num * x.den
FloatLT(x, y) == FloatLE(x, y) /\ x # y
RECURSIVE FloatSum(_)
FloatSum(s) == IF s = <<>> THEN Float(0)
               ELSE LET h == Head(s)
                        t == FloatSum(Tail(s))
                    IN  IF IsNaN(h) \/ IsNaN(t) THEN NaN
                        ELSE IF h.den = 0 \/ t.den = 0 THEN Inf
                        ELSE Frac(h.num * t.den + t.num * h.den, h.den * t.den)

----------------------------------------------------------------------------
\* numpy dtypes: int16 wraps, bool saturates.
Int16(x) == ((x + 32768) % 65536) - 32768
\* every dtype saturating at 1: a matrix that keeps presence, not counts
AddSaturating(dtype, a, b) == IF a + b # 0 THEN 1 ELSE 0
Add(dtype, a, b) == IF dtype = "bool" THEN (IF a + b # 0 THEN 1 ELSE 0) ELSE Int16(a + b)

\* sp.coo_matrix((np.ones(len(lhs)), (lhs.user_idx, lhs.item_idx))): one stored
\* entry per raw row, in the order of the rows; duplicates are kept.
coo_matrix(lhs) ==
    [row  |-> [k \in DOMAIN lhs |-> lhs[k][1]],
     col  |-> [k \in DOMAIN lhs |-> lhs[k][2]],
     data |-> [k \in DOMAIN lhs |-> 1]]

coo_nnz(coo) == Len(coo.data)

\* the sum, in the matrix' dtype, of the stored entries of coo at (u, c) from position k on
RECURSIVE SumAt(_, _, _, _, _)
SumAt(coo, dtype, u, c, k) ==
    IF k > Len(coo.data) THEN 0
    ELSE IF coo.row[k] = u /\ coo.col[k] = c
         THEN Add(dtype, coo.data[k], SumAt(coo, dtype, u, c, k + 1))
         ELSE SumAt(coo, dtype, u, c, k + 1)

\* coo.tocsr(): the entries of each row sorted by column, duplicates summed
\* (sum_duplicates), so that a row stores each column once.
tocsr(coo, n_users, dtype) ==
    [u \in 0..(n_users - 1) |->
        LET indices == SortedSeq({coo.col[k] : k \in {j \in DOMAIN coo.row : coo.row[j] = u}})
        IN  [indices |-> indices,
             data    |-> [k \in DOMAIN indices |-> SumAt(coo, dtype, u, indices[k], 1)]]]

\* sp.csr_matrix((data, (row, col)), shape): built as a COO matrix, then converted
csr_matrix(lhs, n_users, dtype) == tocsr(coo_matrix(lhs), n_users, dtype)

csr_nnz(csr) == SumSeq([k \in 1..Cardinality(DOMAIN csr) |-> Len(csr[k - 1].indices)])

\* the value csr stores at (u, c), 0 when it stores none
csr_at(csr, u, c) ==
    IF \E k \in DOMAIN csr[u].indices : csr[u].indices[k] = c
    THEN csr[u].data[CHOOSE k \in DOMAIN csr[u].indices : csr[u].indices[k] = c]
    ELSE 0

\* a + b of two CSR matrices of one shape and dtype
csr_add(a, b, dtype) ==
    [u \in DOMAIN a |->
        LET indices == SortedSeq(Range(a[u].indices) \cup Range(b[u].indices))
        IN  [indices |-> indices,
             data    |-> [k \in DOMAIN indices |->
                            Add(dtype, csr_at(a, u, indices[k]), csr_at(b, u, indices[k]))]]]

\* csr[u].toarray(): the dense 1 x n_items row
toarray(csr, u, n_items) == [i \in 1..n_items |-> csr_at(csr, u, i - 1)]

\* ndarray.squeeze() of a 1 x n array: every axis of length 1 goes, so a 1 x 1
\* array becomes 0-dimensional
squeeze(row) == [ndim |-> IF Len(row) = 1 THEN 0 ELSE 1, values |-> row]

astype_float32(a) == [ndim |-> a.ndim, values |-> [k \in DOMAIN a.values |-> Float(a.values[k])]]
astype_bool(a) == [ndim |-> a.ndim, values |-> [k \in DOMAIN a.values |-> a.values[k] # 0]]

\* the column sums of the 0/1 incidence: each distinct (row, column) counted once
coo_sum_axis0_Distinct(coo, n_items) ==
    [i \in 1..n_items |-> Cardinality({coo.row[k] : k \in {j \in DOMAIN coo.col : coo.col[j] = i - 1}})]

\* coo.sum(axis=0): the column sums, accumulated in a wide integer
coo_sum_axis0(coo, n_items) ==
    [i \in 1..n_items |-> SumSeq([k \in DOMAIN coo.data |-> IF coo.col[k] = i - 1 THEN coo.data[k] ELSE 0])]

\* csr.sum(1): the row sums, accumulated in a wide integer
csr_sum_axis1(csr) == [k \in 1..Cardinality(DOMAIN csr) |-> SumSeq(csr[k - 1].data)]

----------------------------------------------------------------------------
\* The column names of the model's user tables, and str.endswith / str.split on them.
GroupingNames == {"age", "gender"}
endswith_group_idx(column) == column \in {"age_group_idx", "gender_group_idx"}
split_group_idx(column) == CASE column = "age_group_idx" -> "age"
                             [] column = "gender_group_idx" -> "gender"
                             [] OTHER -> column

columns(table) == DOMAIN table[1]

\* user_idxs[['user_idx', c]].set_index('user_idx').sort_index()[c]: column c,
\* the rows ordered by user_idx
sort_index(table, c) ==
    [p \in 1..Len(table) |->
        table[CHOOSE k \in DOMAIN table :
                 Cardinality({j \in DOMAIN table : table[j]["user_idx"] < table[k]["user_idx"]}) = p - 1][c]]

nunique(table, c) == Cardinality({table[k][c] : k \in DOMAIN table})

SplitSets == {"train", "val", "test"}

_load_lhs(split_set) == listening_history[split_set]

NoDataset ==
    [name |-> "None", split_set |-> "None", n_users |-> 0, n_items |-> 0,
     user_to_user_group |-> None, n_user_groups |-> None, lhs |-> None,
     iteration_matrix |-> None, sampling_matrix |-> None, exclude_data |-> None,
     pop_distribution |-> None, n_pos |-> 0]

\* RecDataset._load_data
_load_data(self) ==
    LET grouping_columns == {c \in columns(user_idxs) : endswith_group_idx(c)}
        column_of(name) == CHOOSE c \in grouping_columns : split_group_idx(c) = name
        names == {split_group_idx(c) : c \in grouping_columns}
        grouped == Cardinality(grouping_columns) > 1
    IN  [self EXCEPT
            !.n_users = Len(user_idxs),
            !.n_items = Len(item_idxs),
            !.user_to_user_group =
                IF grouped THEN Some([g \in names |-> sort_index(user_idxs, column_of(g))]) ELSE None,
            !.n_user_groups =
                IF grouped THEN Some([g \in names |-> nunique(user_idxs, column_of(g))]) ELSE None,
            !.lhs = Some(_load_lhs(self.split_set))]

\* RecDataset.__init__: [err, self]; the object exists only when err = "None".
\* The log message of lines 50-56 evaluates len(self.n_user_groups), which raises
\* TypeError while n_user_groups is None.
RecDataset__init__(split_set) ==
    IF split_set \notin SplitSets THEN [err |-> "AssertionError", self |-> NoDataset]
    ELSE LET self == _load_data([NoDataset EXCEPT !.split_set = split_set])
         IN  IF self.n_user_groups = None THEN [err |-> "TypeError", self |-> NoDataset]
             ELSE [err |-> "None", self |-> [self EXCEPT !.name = "RecDataset"]]

\* TrainRecDataset._prepare_data (delete_lhs = True)
TrainRecDataset_prepare_data(self) ==
    LET iteration_matrix == coo_matrix(Get(self.lhs))
        item_popularity == coo_sum_axis0(iteration_matrix, self.n_items)
        total == Float(SumSeq(item_popularity))
    IN  [self EXCEPT
            !.iteration_matrix = Some(iteration_matrix),
            !.sampling_matrix = Some(tocsr(iteration_matrix, self.n_users, "int16")),
            !.pop_distribution =
                Some([i \in DOMAIN item_popularity |-> TrueDivide(Float(item_popularity[i]), total)]),
            !.lhs = None]

\* TrainRecDataset.__init__
TrainRecDataset__init__ ==
    LET base == RecDataset__init__("train")
    IN  IF base.err # "None" THEN base
        ELSE [err |-> "None",
              self |-> [TrainRecDataset_prepare_data(base.self) EXCEPT !.name = "TrainRecDataset"]]

\* the length taken from the row-indexed matrix, whose duplicates are coalesced
TrainRecDataset__len__Coalesced(self) == csr_nnz(Get(self.sampling_matrix))

\* TrainRecDataset.__len__
TrainRecDataset__len__(self) == coo_nnz(Get(self.iteration_matrix))

\* TrainRecDataset.__getitem__
TrainRecDataset__getitem__(self, index) ==
    <<Get(self.iteration_matrix).row[index + 1], Get(self.iteration_matrix).col[index + 1], Float(1)>>

\* FullEvalDataset._prepare_data without lines 192-197: the validation
\* interactions never join the exclusion matrix
FullEvalDataset_prepare_data_TrainOnly(self) ==
    [self EXCEPT
        !.iteration_matrix = Some(csr_matrix(Get(self.lhs), self.n_users, "int16")),
        !.exclude_data = Some(csr_matrix(_load_lhs("train"), self.n_users, "bool")),
        !.lhs = None]

\* FullEvalDataset._prepare_data (delete_lhs = True)
FullEvalDataset_prepare_data(self) ==
    LET train == csr_matrix(_load_lhs("train"), self.n_users, "bool")
        val == csr_matrix(_load_lhs("val"), self.n_users, "bool")
    IN  [self EXCEPT
            !.iteration_matrix = Some(csr_matrix(Get(self.lhs), self.n_users, "int16")),
            !.exclude_data = Some(IF self.split_set = "test" THEN csr_add(train, val, "bool") ELSE train),
            !.lhs = None]

\* FullEvalDataset.__init__
FullEvalDataset__init__(split_set) ==
    LET base == RecDataset__init__(split_set)
    IN  IF base.err # "None" THEN base
        ELSE [err |-> "None",
              self |-> [FullEvalDataset_prepare_data(base.self) EXCEPT !.name = "FullEvalDataset"]]

\* FullEvalDataset.__len__
FullEvalDataset__len__(self) == self.n_users

\* FullEvalDataset.__getitem__
FullEvalDataset__getitem__(self, user_index) ==
    <<user_index,
      astype_float32(squeeze(toarray(Get(self.iteration_matrix), user_index, self.n_items))),
      astype_bool(squeeze(toarray(Get(self.exclude_data), user_index, self.n_items)))>>

\* np.random.choice(a, size, replace): the arrays a call may return.  It raises
\* ValueError on an empty a unless no sample is taken (size = 0), and without
\* replacement when size exceeds len(a).
np_random_choice(a, size, replace) ==
    IF (Len(a) = 0 /\ size # 0) \/ (~replace /\ size > Len(a)) THEN [err |-> "ValueError", values |-> {}]
    ELSE [err |-> "None",
          values |-> {s \in [1..size -> Range(a)] :
                        replace \/ \A j, k \in 1..size : j # k => s[j] # s[k]}]

\* TrainUserRecDataset.__init__
TrainUserRecDataset__init__(n_pos) ==
    LET base == TrainRecDataset__init__
    IN  IF base.err # "None" THEN base
        ELSE [err |-> "None",
              self |-> [base.self EXCEPT !.n_pos = n_pos, !.name = "TrainUserRecDataset",
                                         !.iteration_matrix = None]]

\* TrainUserRecDataset.__len__
TrainUserRecDataset__len__(self) == self.n_users

\* the draw always made with replacement
TrainUserRecDataset__getitem__Replace(self, user_idx) ==
    np_random_choice(Get(self.sampling_matrix)[user_idx].indices, self.n_pos, TRUE)

\* TrainUserRecDataset.__getitem__: the outcomes of one call
TrainUserRecDataset__getitem__(self, user_idx) ==
    LET user_data == Get(self.sampling_matrix)[user_idx].indices
    IN  np_random_choice(user_data, self.n_pos, Len(user_data) < self.n_pos)

----------------------------------------------------------------------------
\* The files of a dataset directory.

\* user_idxs.csv with the given columns; each grouping column holds groups[c]
UserTable(order, cols, groups) ==
    [k \in DOMAIN order |->
        [c \in cols |-> IF c = "user_idx" THEN order[k] ELSE groups[c][order[k] + 1]]]

ItemTable(n) == [k \in 1..n |-> [item_idx |-> k - 1]]

Ascending(n) == [k \in 1..n |-> k - 1]
Descending(n) == [k \in 1..n |-> n - k]

ColumnSets == {{"user_idx"}, {"user_idx", "age_group_idx"},
               {"user_idx", "age_group_idx", "gender_group_idx"}}
AllColumns == {"user_idx", "age_group_idx", "gender_group_idx"}

Pairs(n_users, n_items) == (0..(n_users - 1)) \X (0..(n_items - 1))

NoCall == [op |-> "None", args |-> <<>>, err |-> "None", value |-> <<>>]

----------------------------------------------------------------------------
\* The evaluation stores: any user table, the interactions spread over the splits.
Init ==
    \E n_users \in 1..MaxUsers, n_items \in 1..MaxItems, cols \in ColumnSets :
    \E a \in 0..MaxEvalRows :
    \E b \in 0..(MaxEvalRows - a) :
    \E c \in 0..(MaxEvalRows - a - b) :
    \E train \in [1..a -> Pairs(n_users, n_items)],
       val \in [1..b -> Pairs(n_users, n_items)],
       test \in [1..c -> Pairs(n_users, n_items)] :
        /\ user_idxs = UserTable(Ascending(n_users), cols,
                                 [g \in cols |-> [u \in 1..n_users |-> 0]])
        /\ item_idxs = ItemTable(n_items)
        /\ listening_history = [train |-> train, val |-> val, test |-> test]
        /\ dataset = NoDataset
        /\ ret = NoCall

Files == <<user_idxs, item_idxs, listening_history>>

Construct(op, args, r) ==
    /\ dataset.name = "None"
    /\ ret.op = "None"
    /\ dataset' = r.self
    /\ ret' = [op |-> op, args |-> args, err |-> r.err, value |-> <<>>]
    /\ UNCHANGED Files

Call(op, args, err, value) ==
    /\ ret' = [op |-> op, args |-> args, err |-> err, value |-> value]
    /\ UNCHANGED <<Files, dataset>>

NewRecDataset ==
    \E split_set \in SplitSets \cup {"valid"} :
        Construct("RecDataset", <<split_set>>, RecDataset__init__(split_set))

NewTrainRecDataset == Construct("TrainRecDataset", <<>>, TrainRecDataset__init__)

NewFullEvalDataset ==
    \E split_set \in SplitSets \cup {"valid"} :
        Construct("FullEvalDataset", <<split_set>>, FullEvalDataset__init__(split_set))

NewTrainUserRecDataset ==
    \E n_pos \in 0..MaxNPos :
        Construct("TrainUserRecDataset", <<n_pos>>, TrainUserRecDataset__init__(n_pos))

EvalLen ==
    /\ dataset.name = "FullEvalDataset"
    /\ Call("FullEvalDataset.__len__", <<>>, "None", FullEvalDataset__len__(dataset))

EvalGetItem ==
    /\ dataset.name = "FullEvalDataset"
    /\ \E user_index \in 0..(dataset.n_users - 1) :
        Call("FullEvalDataset.__getitem__", <<user_index>>, "None",
             FullEvalDataset__getitem__(dataset, user_index))

Next ==
    \/ NewRecDataset
    \/ NewTrainRecDataset
    \/ NewFullEvalDataset
    \/ NewTrainUserRecDataset
    \/ EvalLen
    \/ EvalGetItem

Spec == Init /\ [][Next]_vars

----------------------------------------------------------------------------
\* Claims on the evaluation store.

GroupingColumns == {c \in columns(user_idxs) : c \in {"age_group_idx", "gender_group_idx"}}
IsEvalGet == ret.op = "FullEvalDataset.__getitem__" /\ dataset.split_set \in {"val", "test"}
Occurrences(lhs, u, i) == Cardinality({k \in DOMAIN lhs : lhs[k] = <<u, i>>})

\* C1: the exclusion row FullEvalDataset.get(u) returns is True at item i exactly
\* when (u, i) is a row of the train list (split val), or of the train list or
\* the val list (split test); so what is excluded for val is excluded for test.
C1_ExclusionLaw ==
    IsEvalGet =>
        LET u == ret.args[1]
            exclusion == ret.value[3].values
        IN  /\ Len(exclusion) = Len(item_idxs)
            /\ \A i \in 0..(Len(item_idxs) - 1) :
                  exclusion[i + 1] =
                     (\/ <<u, i>> \in Range(listening_history["train"])
                      \/ /\ dataset.split_set = "test"
                         /\ <<u, i>> \in Range(listening_history["val"]))

\* a test store whose user has a pair in the val list alone (excluded) and a
\* pair that is not excluded
C1_Witness ==
    /\ IsEvalGet
    /\ dataset.split_set = "test"
    /\ \E i, j \in 0..(Len(item_idxs) - 1) :
          /\ <<ret.args[1], i>> \in Range(listening_history["val"])
          /\ <<ret.args[1], i>> \notin Range(listening_history["train"])
          /\ ret.value[3].values[i + 1]
          /\ ~ret.value[3].values[j + 1]

\* C2: constructing FullEvalDataset with a split other than val or test
\* (train included) fails with the invalid-argument error and leaves no store.
C2_OnlyValOrTest ==
    (/\ ret.op = "FullEvalDataset"
     /\ ret.args[1] \notin {"val", "test"}
     /\ Cardinality(GroupingColumns) >= 2) =>
        (ret.err = "AssertionError" /\ dataset.name = "None")

IsConstruction ==
    \/ ret.op \in {"TrainRecDataset", "TrainUserRecDataset"}
    \/ ret.op \in {"RecDataset", "FullEvalDataset"} /\ ret.args[1] \in SplitSets

\* C3: constructing a dataset from a user table that has user_idx completes,
\* with n_users, n_items, and group mappings exactly when the table has at least
\* two columns ending in group_idx (none with zero or one such column).
C3_ConstructionCompletes ==
    IsConstruction =>
        /\ ret.err = "None"
        /\ dataset.n_users = Len(user_idxs)
        /\ dataset.n_items = Len(item_idxs)
        /\ (dataset.user_to_user_group # None) = (Cardinality(GroupingColumns) >= 2)

\* C10 as claimed: the dense incidence row FullEvalDataset.get(u) returns is
\* binary, 1.0 where (u, i) occurs in the split's list and 0.0 elsewhere.
C10_BinaryRow ==
    IsEvalGet =>
        \A i \in 0..(Len(item_idxs) - 1) :
            ret.value[2].values[i + 1] =
                IF <<ret.args[1], i>> \in Range(listening_history[dataset.split_set])
                THEN Float(1) ELSE Float(0)

\* C10 as amended: the dense incidence row holds, per item, the number of rows
\* (u, i) of the split's list; it has n_items entries, and is 0-dimensional
\* when n_items = 1.
C10_CountRow ==
    IsEvalGet =>
        /\ Len(ret.value[2].values) = Len(item_idxs)
        /\ ret.value[2].ndim = (IF Len(item_idxs) = 1 THEN 0 ELSE 1)
        /\ \A i \in 0..(Len(item_idxs) - 1) :
              ret.value[2].values[i + 1] =
                 Float(Occurrences(listening_history[dataset.split_set], ret.args[1], i))

\* a row with a duplicated pair (entry 2.0), next to an absent pair (entry 0.0)
C10_Witness ==
    /\ IsEvalGet
    /\ \E i, j \in 0..(Len(item_idxs) - 1) :
          /\ Occurrences(listening_history[dataset.split_set], ret.args[1], i) = 2
          /\ ret.value[2].values[i + 1] = Float(2)
          /\ ret.value[2].values[j + 1] = Float(0)

----------------------------------------------------------------------------
\* The training stores: a user table with two grouping columns, a training list.
InitTrain ==
    \E n_users \in 1..MaxUsers, n_items \in 1..MaxItems :
    \E a \in 0..MaxRows :
    \E train \in [1..a -> Pairs(n_users, n_items)] :
        /\ user_idxs = UserTable(Ascending(n_users), AllColumns,
                                 [g \in AllColumns |-> [u \in 1..n_users |-> 0]])
        /\ item_idxs = ItemTable(n_items)
        /\ listening_history = [train |-> train, val |-> <<>>, test |-> <<>>]
        /\ dataset = NoDataset
        /\ ret = NoCall

TrainLen ==
    /\ dataset.name = "TrainRecDataset"
    /\ Call("TrainRecDataset.__len__", <<>>, "None", TrainRecDataset__len__(dataset))

TrainGetItem ==
    /\ dataset.name = "TrainRecDataset"
    /\ \E index \in 0..(TrainRecDataset__len__(dataset) - 1) :
        Call("TrainRecDataset.__getitem__", <<index>>, "None",
             TrainRecDataset__getitem__(dataset, index))

UserLen ==
    /\ dataset.name = "TrainUserRecDataset"
    /\ Call("TrainUserRecDataset.__len__", <<>>, "None", TrainUserRecDataset__len__(dataset))

UserGetItem ==
    /\ dataset.name = "TrainUserRecDataset"
    /\ \E user_idx \in 0..(dataset.n_users - 1) :
        LET r == TrainUserRecDataset__getitem__(dataset, user_idx)
        IN  IF r.err # "None"
            THEN Call("TrainUserRecDataset.__getitem__", <<user_idx>>, r.err, <<>>)
            ELSE \E item_pos_idxs \in r.values :
                    Call("TrainUserRecDataset.__getitem__", <<user_idx>>, "None",
                         <<user_idx, item_pos_idxs>>)

NextTrain ==
    \/ NewTrainRecDataset
    \/ NewTrainUserRecDataset
    \/ TrainLen
    \/ TrainGetItem
    \/ UserLen
    \/ UserGetItem

SpecTrain == InitTrain /\ [][NextTrain]_vars

----------------------------------------------------------------------------
\* Claims on the training stores.

TrainRows == listening_history["train"]
History(u) == {pair[2] : pair \in {q \in Range(TrainRows) : q[1] = u}}
RowsOfItem(i) == Cardinality({k \in DOMAIN TrainRows : TrainRows[k][2] = i})

\* C4: length() is the number of raw training rows (duplicates counted); the
\* sampling matrix stores each distinct (user_idx, item_idx) once, so its nnz
\* is <= length(); get(p) returns (u, i, 1.0) with i in the sampling row of u,
\* and every pair the sampling matrix stores is returned at some position.
C4_TwoViews ==
    /\ ret.op = "TrainRecDataset.__len__" => ret.value = Len(TrainRows)
    /\ dataset.name = "TrainRecDataset" =>
          LET sampling == Get(dataset.sampling_matrix)
              length == TrainRecDataset__len__(dataset)
          IN  /\ length = Len(TrainRows)
              /\ csr_nnz(sampling) = Cardinality(Range(TrainRows))
              /\ csr_nnz(sampling) <= length
              /\ \A u \in DOMAIN sampling :
                    /\ Range(sampling[u].indices) = History(u)
                    /\ Len(sampling[u].indices) = Cardinality(History(u))
                    /\ \A i \in History(u) :
                          \E p \in 0..(length - 1) :
                             TrainRecDataset__getitem__(dataset, p) = <<u, i, Float(1)>>
    /\ ret.op = "TrainRecDataset.__getitem__" =>
          /\ ret.value = <<TrainRows[ret.args[1] + 1][1], TrainRows[ret.args[1] + 1][2], Float(1)>>
          /\ ret.value[2] \in Range(Get(dataset.sampling_matrix)[ret.value[1]].indices)

\* get(p) on a list with a duplicated row: the sampling matrix stores fewer
\* entries than there are positions
C4_Witness ==
    /\ ret.op = "TrainRecDataset.__getitem__"
    /\ csr_nnz(Get(dataset.sampling_matrix)) < TrainRecDataset__len__(dataset)
    /\ csr_nnz(Get(dataset.sampling_matrix)) >= 2

\* C5: for a user with a non-empty history H and n_pos >= 1,
\* TrainUserRecDataset.get(user_idx) returns n_pos item indices of H, pairwise
\* distinct when |H| >= n_pos; repeats occur only when |H| < n_pos.
C5_PositivesFromHistory ==
    (ret.op = "TrainUserRecDataset.__getitem__" /\ History(ret.args[1]) # {}) =>
        /\ ret.err = "None"
        /\ ret.value[1] = ret.args[1]
        /\ Len(ret.value[2]) = dataset.n_pos
        /\ Range(ret.value[2]) \subseteq History(ret.args[1])
        /\ Cardinality(History(ret.args[1])) >= dataset.n_pos =>
              Cardinality(Range(ret.value[2])) = dataset.n_pos

\* a draw of two distinct positives for a user whose list repeats a row
C5_Witness ==
    /\ ret.op = "TrainUserRecDataset.__getitem__"
    /\ ret.err = "None"
    /\ dataset.n_pos >= 2
    /\ Cardinality(History(ret.args[1])) >= dataset.n_pos
    /\ Cardinality(Range(ret.value[2])) = dataset.n_pos
    /\ \E k \in DOMAIN TrainRows : TrainRows[k][1] = ret.args[1] /\ Occurrences(TrainRows, TrainRows[k][1], TrainRows[k][2]) >= 2

\* C11: TrainUserRecDataset.length() = n_users, and for every user_idx in
\* [0, n_users), whatever the size of the user's training history (a user with
\* no training interaction included), get(user_idx) does not fail and returns
\* (user_idx, an array of exactly n_pos item indices).  Stated on a non-empty
\* training list, where the other users do have a history.
C11_FixedShapeForEveryUser ==
    /\ ret.op = "TrainUserRecDataset.__len__" => ret.value = Len(user_idxs)
    /\ (ret.op = "TrainUserRecDataset.__getitem__" /\ TrainRows # <<>>) =>
          /\ ret.err = "None"
          /\ Len(ret.value) = 2
          /\ ret.value[1] = ret.args[1]
          /\ Len(ret.value[2]) = dataset.n_pos

HasPopularity == dataset.name \in {"TrainRecDataset", "TrainUserRecDataset"} /\ TrainRows # <<>>
DistinctUsersOfItem(i) == Cardinality({q \in Range(TrainRows) : q[2] = i})

\* C9 as claimed: popularity[i] is the column sum of item i in the 0/1
\* incidence (each distinct pair counted once) over the total of these sums.
C9_DistinctPairPopularity ==
    HasPopularity =>
        \A i \in 0..(Len(item_idxs) - 1) :
            LET p == Get(dataset.pop_distribution)[i + 1]
            IN  p.num * Cardinality(Range(TrainRows)) = p.den * DistinctUsersOfItem(i)

\* C9 as amended: for a non-empty training list pop_distribution has n_items
\* entries that sum to 1; popularity[i] is the number of raw training rows of
\* item i (duplicates counted) over the number of raw rows, 0 for an item with
\* no row, and greater for the item with strictly more rows.
C9_RowCountPopularity ==
    HasPopularity =>
        LET pop == Get(dataset.pop_distribution)
        IN  /\ Len(pop) = Len(item_idxs)
            /\ FloatSum(pop) = Float(1)
            /\ \A i \in 0..(Len(item_idxs) - 1) :
                  /\ pop[i + 1].den > 0
                  /\ pop[i + 1].num * Len(TrainRows) = pop[i + 1].den * RowsOfItem(i)
                  /\ RowsOfItem(i) = 0 => pop[i + 1] = Float(0)
            /\ \A i, j \in 0..(Len(item_idxs) - 1) :
                  RowsOfItem(i) > RowsOfItem(j) => FloatLT(pop[j + 1], pop[i + 1])

\* an item made the more popular one by a duplicated row alone
C9_Witness ==
    /\ HasPopularity
    /\ \E i, j \in 0..(Len(item_idxs) - 1) :
          /\ RowsOfItem(i) > RowsOfItem(j)
          /\ DistinctUsersOfItem(i) = DistinctUsersOfItem(j)
          /\ DistinctUsersOfItem(j) > 0
          /\ FloatLT(Get(dataset.pop_distribution)[j + 1], Get(dataset.pop_distribution)[i + 1])

----------------------------------------------------------------------------
\* src/fair/utils.py

\* get_upsampling_values without lines 54-56: no group is set to 0
get_upsampling_values_NoOutlier(train_mtx, n_groups, user_to_user_group, dataset_name, attribute) ==
    LET sums == [g \in 1..n_groups |->
                    SumSeq([u \in DOMAIN user_to_user_group |->
                              IF user_to_user_group[u] = g - 1 THEN SumSeq(train_mtx[u - 1].data) ELSE 0])]
    IN  [g \in 1..n_groups |-> TrueDivide(Float(Max(Range(sums))), Float(sums[g]))]

\* get_upsampling_values (n_groups >= 1)
get_upsampling_values(train_mtx, n_groups, user_to_user_group, dataset_name, attribute) ==
    LET sums == [g \in 1..n_groups |->
                    SumSeq([u \in DOMAIN user_to_user_group |->
                              IF user_to_user_group[u] = g - 1 THEN SumSeq(train_mtx[u - 1].data) ELSE 0])]
        ce_weights == [g \in 1..n_groups |-> TrueDivide(Float(Max(Range(sums))), Float(sums[g]))]
    IN  IF dataset_name = "lfm2bdemobias" /\ attribute = "age"
        THEN [ce_weights EXCEPT ![n_groups] = Float(0)]
        ELSE ce_weights

DeltaOn == {"all", "groups", "users"}

\* get_mod_weights_settings with the 'users' sizes in the 'groups' branch
get_mod_weights_settings_GroupsAsUsers(delta_on, train_dataset, group_type) ==
    IF delta_on \notin DeltaOn \/ (group_type = "None" /\ delta_on = "groups")
    THEN [err |-> "AssertionError", value |-> <<>>]
    ELSE IF delta_on = "all"
    THEN [err |-> "None", value |-> <<1, [u \in 1..train_dataset.n_users |-> 0]>>]
    ELSE IF delta_on = "groups"
    THEN [err |-> "None",
          value |-> <<train_dataset.n_users, Get(train_dataset.user_to_user_group)[group_type]>>]
    ELSE [err |-> "None",
          value |-> <<train_dataset.n_users, [u \in 1..train_dataset.n_users |-> u - 1]>>]

\* get_mod_weights_settings; group_type "None" is the default None
get_mod_weights_settings(delta_on, train_dataset, group_type) ==
    IF delta_on \notin DeltaOn \/ (group_type = "None" /\ delta_on = "groups")
    THEN [err |-> "AssertionError", value |-> <<>>]
    ELSE IF delta_on = "all"
    THEN [err |-> "None", value |-> <<1, [u \in 1..train_dataset.n_users |-> 0]>>]
    ELSE IF delta_on = "groups"
    THEN IF group_type \notin DOMAIN Get(train_dataset.n_user_groups)
         THEN [err |-> "KeyError", value |-> <<>>]
         ELSE [err |-> "None",
               value |-> <<Get(train_dataset.n_user_groups)[group_type],
                           Get(train_dataset.user_to_user_group)[group_type]>>]
    ELSE [err |-> "None",
          value |-> <<train_dataset.n_users, [u \in 1..train_dataset.n_users |-> u - 1]>>]

\* the reference value of a scaling method over the users' counts
scaling_reference(n_user_updates, method) ==
    CASE method = "mean" -> TrueDivide(Float(SumSeq(n_user_updates)), Float(Len(n_user_updates)))
      [] method = "max" -> Float(Max(Range(n_user_updates)))
      [] method = "min" -> Float(Min(Range(n_user_updates)))

\* get_users_gradient_scaling with 'mean' missing from the accepted methods
get_users_gradient_scaling_NoMean(train_dataset, method) ==
    IF method \notin {"max", "min", "none"}
    THEN [err |-> "AssertionError", value |-> <<>>]
    ELSE IF method = "none"
    THEN [err |-> "None", value |-> [u \in 1..train_dataset.n_users |-> Float(1)]]
    ELSE LET n_user_updates == csr_sum_axis1(Get(train_dataset.sampling_matrix))
         IN  [err |-> "None",
              value |-> [u \in DOMAIN n_user_updates |->
                           TrueDivide(scaling_reference(n_user_updates, method),
                                      Float(n_user_updates[u]))]]

\* get_users_gradient_scaling
get_users_gradient_scaling(train_dataset, method) ==
    IF method \notin {"mean", "max", "min", "none"}
    THEN [err |-> "AssertionError", value |-> <<>>]
    ELSE IF method = "none"
    THEN [err |-> "None", value |-> [u \in 1..train_dataset.n_users |-> Float(1)]]
    ELSE LET n_user_updates == csr_sum_axis1(Get(train_dataset.sampling_matrix))
         IN  [err |-> "None",
              value |-> [u \in DOMAIN n_user_updates |->
                           TrueDivide(scaling_reference(n_user_updates, method),
                                      Float(n_user_updates[u]))]]

----------------------------------------------------------------------------
\* The fairness helpers on a training store.  The user table lists the users
\* from the last to the first, its age column is any assignment whose group
\* indices are 0..k-1, its gender column alternates.  The helpers read the
\* training list through the row-indexed matrix only, so the lists are taken
\* in sorted order (how a list's order shows is the subject of SpecTrain).
DenseMappings(n_users) ==
    {f \in [1..n_users -> 0..(MaxGroups - 1)] : \E k \in 1..MaxGroups : Range(f) = 0..(k - 1)}

PairLE(p, q) == p[1] < q[1] \/ (p[1] = q[1] /\ p[2] <= q[2])

InitFair ==
    \E n_users \in 1..MaxUsers, n_items \in 1..MaxItems :
    \E a \in 0..MaxRows :
    \E train \in {l \in [1..a -> Pairs(n_users, n_items)] : \A k \in 1..(a - 1) : PairLE(l[k], l[k + 1])} :
    \E age \in DenseMappings(n_users) :
        /\ user_idxs = UserTable(Descending(n_users), AllColumns,
                                 [g \in AllColumns |->
                                    IF g = "age_group_idx" THEN age
                                    ELSE [u \in 1..n_users |-> (u - 1) % 2]])
        /\ item_idxs = ItemTable(n_items)
        /\ listening_history = [train |-> train, val |-> <<>>, test |-> <<>>]
        /\ dataset = NoDataset
        /\ ret = NoCall

\* a run calls each helper once, on the store it has just built
IsTrainStore == dataset.name = "TrainRecDataset" /\ ret.op = "TrainRecDataset"

GetModWeightsSettings ==
    /\ IsTrainStore
    /\ \E delta_on \in DeltaOn \cup {"items"}, group_type \in GroupingNames \cup {"None"} :
        LET r == get_mod_weights_settings(delta_on, dataset, group_type)
        IN  Call("get_mod_weights_settings", <<delta_on, group_type>>, r.err, r.value)

GetUpsamplingValues ==
    /\ IsTrainStore
    /\ \E n_groups \in 1..MaxGroups, attribute \in GroupingNames,
          dataset_name \in {"lfm2bdemobias", "ml1m"} :
        Call("get_upsampling_values", <<n_groups, attribute, dataset_name>>, "None",
             get_upsampling_values(Get(dataset.sampling_matrix), n_groups,
                                   Get(dataset.user_to_user_group)[attribute],
                                   dataset_name, attribute))

GetUsersGradientScaling ==
    /\ IsTrainStore
    /\ \E method \in {"none", "mean", "max", "min", "sum"} :
        LET r == get_users_gradient_scaling(dataset, method)
        IN  Call("get_users_gradient_scaling", <<method>>, r.err, r.value)

NextFair ==
    \/ NewTrainRecDataset
    \/ GetModWeightsSettings
    \/ GetUpsamplingValues
    \/ GetUsersGradientScaling

SpecFair == InitFair /\ [][NextFair]_vars

----------------------------------------------------------------------------
\* Claims on the fairness helpers.

GroupOf(u, attribute) ==
    LET column == IF attribute = "age" THEN "age_group_idx" ELSE "gender_group_idx"
    IN  user_idxs[CHOOSE k \in DOMAIN user_idxs : user_idxs[k]["user_idx"] = u][column]
UserIds == 0..(Len(user_idxs) - 1)
GroupCardinality(attribute) == Cardinality({GroupOf(u, attribute) : u \in UserIds})
UserRows(u) == Cardinality({k \in DOMAIN TrainRows : TrainRows[k][1] = u})
GroupRows(g, attribute) ==
    Cardinality({k \in DOMAIN TrainRows : GroupOf(TrainRows[k][1], attribute) = g})
\* x is the float quotient a / b of two non-negative integers
IsQuotient(x, a, b) ==
    IF b > 0 THEN x.den > 0 /\ x.num * b = x.den * a
    ELSE IF a > 0 THEN x = Inf
    ELSE x = NaN

IsUpsampling == ret.op = "get_upsampling_values"
IsOutlierCase == ret.args[3] = "lfm2bdemobias" /\ ret.args[2] = "age"
MaxGroupRows == Max({GroupRows(g, ret.args[2]) : g \in 0..(ret.args[1] - 1)})

\* C7 as claimed, for G >= 2 on matrices in which every group has
\* interactions: the vector has length G, the group with the largest sum has
\* weight exactly 1.0, and for 'lfm2bdemobias' with 'age' the last group's
\* weight is 0.
C7_LargestGroupWeighsOne ==
    (/\ IsUpsampling
     /\ ret.args[1] >= 2
     /\ \A g \in 0..(ret.args[1] - 1) : GroupRows(g, ret.args[2]) > 0) =>
        /\ Len(ret.value) = ret.args[1]
        /\ \A g \in 0..(ret.args[1] - 1) :
              (\A h \in 0..(ret.args[1] - 1) :
                  h # g => GroupRows(h, ret.args[2]) < GroupRows(g, ret.args[2])) =>
                 ret.value[g + 1] = Float(1)
        /\ IsOutlierCase => ret.value[ret.args[1]] = Float(0)

\* C7 as amended: weight[g] = max(sums) / sums[g] (inf on a zero sum, nan when
\* every sum is zero), but 0 for the last group of 'lfm2bdemobias' with 'age';
\* a group with the largest sum weighs 1.0 when that sum is positive and the
\* group is not that last group.
C7_UpsamplingWeights ==
    IsUpsampling =>
        /\ Len(ret.value) = ret.args[1]
        /\ \A g \in 0..(ret.args[1] - 1) :
              /\ IF IsOutlierCase /\ g = ret.args[1] - 1
                 THEN ret.value[g + 1] = Float(0)
                 ELSE IsQuotient(ret.value[g + 1], MaxGroupRows, GroupRows(g, ret.args[2]))
              /\ (/\ GroupRows(g, ret.args[2]) = MaxGroupRows
                  /\ MaxGroupRows > 0
                  /\ ~(IsOutlierCase /\ g = ret.args[1] - 1)) => ret.value[g + 1] = Float(1)

\* 'lfm2bdemobias' with 'age', the last group holding the largest sum: it
\* weighs 0 and the other group weighs 2.0
C7_Witness ==
    /\ IsUpsampling
    /\ IsOutlierCase
    /\ ret.args[1] = 2
    /\ GroupRows(0, "age") = 1
    /\ GroupRows(1, "age") = 2
    /\ ret.value = <<Float(2), Float(0)>>

IsScaling == ret.op = "get_users_gradient_scaling"
MaxUserRows == Max({UserRows(u) : u \in UserIds})
MinUserRows == Min({UserRows(u) : u \in UserIds})

\* C8 as claimed, on matrices in which every user has interactions: 'max'
\* gives the most active user 1.0 and the others >= 1.0, 'min' gives the least
\* active user 1.0 and the others <= 1.0, 'none' gives 1.0 throughout, and
\* any other policy fails with the invalid-argument error.
C8_MaxMinNoneOnly ==
    (IsScaling /\ \A u \in UserIds : UserRows(u) > 0) =>
        IF ret.args[1] \in {"max", "min", "none"}
        THEN /\ ret.err = "None"
             /\ \A u \in UserIds :
                   /\ ret.args[1] = "none" => ret.value[u + 1] = Float(1)
                   /\ ret.args[1] = "max" =>
                         /\ FloatLE(Float(1), ret.value[u + 1])
                         /\ UserRows(u) = MaxUserRows => ret.value[u + 1] = Float(1)
                   /\ ret.args[1] = "min" =>
                         /\ FloatLE(ret.value[u + 1], Float(1))
                         /\ UserRows(u) = MinUserRows => ret.value[u + 1] = Float(1)
        ELSE ret.err = "AssertionError"

\* C8 as amended: the accepted policies are none, mean, max and min, anything
\* else fails; scale[u] is 1.0 under 'none' and reference / counts[u] under the
\* others, the reference being the mean, the largest or the smallest count.
\* So 'max' gives the most active user 1.0 and the others >= 1.0 when the
\* matrix has an interaction, 'min' gives the least active user 1.0 and the
\* others <= 1.0 when every user has one; a zero count divides by zero.
C8_GradientScaling ==
    IsScaling =>
        IF ret.args[1] \notin {"none", "mean", "max", "min"}
        THEN ret.err = "AssertionError"
        ELSE /\ ret.err = "None"
             /\ Len(ret.value) = Len(user_idxs)
             /\ \A u \in UserIds :
                   /\ ret.args[1] = "none" => ret.value[u + 1] = Float(1)
                   /\ ret.args[1] = "mean" =>
                         IsQuotient(ret.value[u + 1], Len(TrainRows), Len(user_idxs) * UserRows(u))
                   /\ ret.args[1] = "max" =>
                         /\ IsQuotient(ret.value[u + 1], MaxUserRows, UserRows(u))
                         /\ MaxUserRows > 0 =>
                               /\ FloatLE(Float(1), ret.value[u + 1])
                               /\ UserRows(u) = MaxUserRows => ret.value[u + 1] = Float(1)
                   /\ ret.args[1] = "min" =>
                         /\ IsQuotient(ret.value[u + 1], MinUserRows, UserRows(u))
                         /\ MinUserRows > 0 =>
                               /\ FloatLE(ret.value[u + 1], Float(1))
                               /\ UserRows(u) = MinUserRows => ret.value[u + 1] = Float(1)
                         /\ MinUserRows = 0 =>
                               ret.value[u + 1] = (IF UserRows(u) = 0 THEN NaN ELSE Float(0))

\* 'mean' on a matrix whose users have 2 and 1 interactions: scales 3/4 and 3/2
C8_Witness ==
    /\ IsScaling
    /\ ret.args[1] = "mean"
    /\ ret.err = "None"
    /\ \E u, v \in UserIds :
          /\ UserRows(u) = 2
          /\ UserRows(v) = 1
          /\ ret.value[u + 1] = Frac(3, 4)
          /\ ret.value[v + 1] = Frac(3, 2)

====
